---- MODULE Spec2Model ----
(***************************************************************************)
(* Model of payment_handler.py: the create_bill and handle_webhook Lambda  *)
(* handlers, the MongoDB collection they share, the Billplz provider, and  *)
(* the verify_signature function.                                          *)
(*                                                                         *)
(* Python values: an Optional[str] is a sequence of length <= 1 (None is   *)
(* <<>>, the string s is <<s>>); a dict is a function whose domain is the  *)
(* set of its keys; a timestamp is the value of the clock `now`; a Decimal *)
(* amount is an integer number of thousandths of a ringgit.                *)
(***************************************************************************)
EXTENDS Integers, Sequences, FiniteSets, TLC

VARIABLES
    CALLBACK_URL,                 \* module globals read from the environment
    REDIRECT_URL,
    JPJ_COLLECTION_ID,
    TNB_COLLECTION_ID,
    JPJ_BILLPLZ_X_SIGNATURE_KEY,
    TNB_BILLPLZ_X_SIGNATURE_KEY,
    client,                       \* TRUE: MongoClient connected, FALSE: client = None
    store,                        \* the MongoDB collection, in insertion order
    bills,                        \* the bills the provider has created
    now,                          \* the clock datetime.now() reads
    c_pc, c_body, c_ts, c_bill,   \* create_bill invocations: position and locals
    w_pc, w_event, w_upd,         \* handle_webhook invocations: position and locals
    ret,                          \* the return of the last step: function, event,
                                  \* response (NoReturn when the step returned nothing)
    vs                            \* the last verify_signature call: inputs and result

env == <<CALLBACK_URL, REDIRECT_URL, JPJ_COLLECTION_ID, TNB_COLLECTION_ID,
         JPJ_BILLPLZ_X_SIGNATURE_KEY, TNB_BILLPLZ_X_SIGNATURE_KEY, client>>
cvars == <<c_pc, c_body, c_ts, c_bill>>
wvars == <<w_pc, w_event, w_upd>>
vars == <<env, store, bills, now, cvars, wvars, ret, vs>>

----------------------------------------------------------------------------
(* Bounds *)
MaxClock == 1        \* the clock takes the values 0..MaxClock; a transaction id is a
                     \* timestamp, so the store holds at most MaxClock + 1 documents

----------------------------------------------------------------------------
(* Python values *)
None == <<>>
Some(s) == <<s>>

\* bool(x) for an Optional[str]: None and "" are falsy
Truthy(o) == o # None /\ o # Some("")

\* d.get(k)
Get(d, k) == IF k \in DOMAIN d THEN Some(d[k]) ELSE None

\* d.get(k, '')
GetOrEmpty(d, k) == IF k \in DOMAIN d THEN d[k] ELSE ""

\* the dict holding the keys of o whose value is not None
Dict(o) == [k \in {x \in DOMAIN o : o[x] # None} |-> o[k][1]]

EmptyDict == [k \in {} |-> ""]

----------------------------------------------------------------------------
(* verify_signature *)

keys == <<"amount", "collection_id", "due_at", "email", "id", "mobile", "name",
          "paid_amount", "paid_at", "paid", "state", "url">>

RECURSIVE JoinPipe(_)
JoinPipe(parts) ==
    IF Len(parts) = 0 THEN ""
    ELSE IF Len(parts) = 1 THEN parts[1]
    ELSE parts[1] \o "|" \o JoinPipe(Tail(parts))

\* mutant: a field absent from the callback is omitted from the string
ToSignOmitAbsent(data) ==
    JoinPipe(SelectSeq([i \in 1..Len(keys) |->
                          IF keys[i] \in DOMAIN data THEN keys[i] \o data[keys[i]] ELSE ""],
                       LAMBDA part : part # ""))

\* "|".join([f"{k}{data.get(k, '')}" for k in keys])
ToSign(data) == JoinPipe([i \in 1..Len(keys) |-> keys[i] \o GetOrEmpty(data, keys[i])])

\* hmac.new(key, msg, sha256).hexdigest(): a digest determined by key and message,
\* different for different (key, message)
HmacHex(key, msg) == "hmac[" \o key \o "][" \o msg \o "]"

\* TLC strings are atomic: the strings of the inputs that hold a character outside
\* ASCII are listed here
NonAscii == {"signé"}
IsAscii(s) == s \notin NonAscii

\* lines 269-277 for the resolved key: None.encode raises AttributeError (line 270);
\* hmac.compare_digest raises TypeError for a str that is not ASCII (line 277)
CompareDigest(key, to_sign, signature) ==
    IF key = None THEN "raise"
    ELSE IF ~IsAscii(signature[1]) THEN "raise"
    ELSE IF HmacHex(key[1], to_sign) = signature[1] THEN "True" ELSE "False"

\* verify_signature(data, signature): "True", "False", or "raise"
verify_signature(data, signature) ==
    IF ~Truthy(signature) THEN "False"
    ELSE LET to_sign == ToSign(data)
             collection_id == Get(data, "collection_id")
         IN  IF collection_id = JPJ_COLLECTION_ID
                 THEN CompareDigest(JPJ_BILLPLZ_X_SIGNATURE_KEY, to_sign, signature)
             ELSE IF collection_id = TNB_COLLECTION_ID
                 THEN CompareDigest(TNB_BILLPLZ_X_SIGNATURE_KEY, to_sign, signature)
             ELSE "False"

----------------------------------------------------------------------------
(* The MongoDB collection *)

\* mutant: _id is not a unique key, insert_one never raises
DuplicateKeyNever(docs, doc) == FALSE

\* insert_one raises DuplicateKeyError when the _id is already stored
DuplicateKey(docs, doc) == \E i \in 1..Len(docs) : docs[i]._id = doc._id

\* the filter {"_id": transaction_id}
MatchId(doc, transaction_id) == doc._id = transaction_id

\* mutant: a transaction that has no bill id yet matches every bill id
MatchBillIdOrUnbilled(doc, bill_id) ==
    "billId" \notin DOMAIN doc.billplz \/ doc.billplz["billId"] = Some(bill_id)

\* the filter {"billplz.billId": bill_id}, bill_id a string
MatchBillId(doc, bill_id) ==
    "billId" \in DOMAIN doc.billplz /\ doc.billplz["billId"] = Some(bill_id)

\* update_one changes the first document the filter matches: 0 when there is none
FirstById(docs, transaction_id) ==
    IF \E i \in 1..Len(docs) : MatchId(docs[i], transaction_id)
    THEN CHOOSE i \in 1..Len(docs) :
            /\ MatchId(docs[i], transaction_id)
            /\ \A j \in 1..(i - 1) : ~MatchId(docs[j], transaction_id)
    ELSE 0

FirstByBillId(docs, bill_id) ==
    IF \E i \in 1..Len(docs) : MatchBillId(docs[i], bill_id)
    THEN CHOOSE i \in 1..Len(docs) :
            /\ MatchBillId(docs[i], bill_id)
            /\ \A j \in 1..(i - 1) : ~MatchBillId(docs[j], bill_id)
    ELSE 0

\* {"$set": {"billplz": {"billId": ..., "url": ...}, "updatedAt": timestamp}}
SetBillplz(doc, bill_data, timestamp) ==
    [doc EXCEPT !.billplz = [k \in {"billId", "url"} |->
                                IF k = "billId" THEN bill_data.id ELSE bill_data.url],
                !.updatedAt = timestamp]

\* mutant: paidAmount is added to the amount already stored instead of set
SetUpdateDataAccumulate(doc, update_data) ==
    [doc EXCEPT !.status = update_data.status,
                !.billplz = [k \in DOMAIN doc.billplz \cup {"paidAt", "paidAmount"} |->
                                IF k = "paidAt" THEN update_data.paidAt
                                ELSE IF k = "paidAmount"
                                THEN IF /\ "paidAmount" \in DOMAIN doc.billplz
                                        /\ doc.billplz["paidAmount"] # None
                                        /\ update_data.paidAmount # None
                                     THEN Some(doc.billplz["paidAmount"][1] \o "+"
                                               \o update_data.paidAmount[1])
                                     ELSE update_data.paidAmount
                                ELSE doc.billplz[k]],
                !.updatedAt = update_data.updatedAt]

\* mutant: a paidAt already stored is kept, the other fields are written
SetUpdateDataTorn(doc, update_data) ==
    [doc EXCEPT !.status = update_data.status,
                !.billplz = [k \in DOMAIN doc.billplz \cup {"paidAt", "paidAmount"} |->
                                IF k = "paidAt"
                                THEN IF "paidAt" \in DOMAIN doc.billplz
                                     THEN doc.billplz["paidAt"] ELSE update_data.paidAt
                                ELSE IF k = "paidAmount" THEN update_data.paidAmount
                                ELSE doc.billplz[k]],
                !.updatedAt = update_data.updatedAt]

\* mutant: the whole billplz sub-record is set, as create_bill does
SetUpdateDataReplace(doc, update_data) ==
    [doc EXCEPT !.status = update_data.status,
                !.billplz = [k \in {"paidAt", "paidAmount"} |->
                                IF k = "paidAt" THEN update_data.paidAt
                                ELSE update_data.paidAmount],
                !.updatedAt = update_data.updatedAt]

\* {"$set": {"status", "billplz.paidAt", "billplz.paidAmount", "updatedAt"}}
SetUpdateData(doc, update_data) ==
    [doc EXCEPT !.status = update_data.status,
                !.billplz = [k \in DOMAIN doc.billplz \cup {"paidAt", "paidAmount"} |->
                                IF k = "paidAt" THEN update_data.paidAt
                                ELSE IF k = "paidAmount" THEN update_data.paidAmount
                                ELSE doc.billplz[k]],
                !.updatedAt = update_data.updatedAt]

\* mutant: the filter is {"billplz.billId": {"$exists": true}} with update_many
UpdateManyBilled(docs, bill_id, update_data) ==
    [i \in 1..Len(docs) |->
        IF "billId" \in DOMAIN docs[i].billplz
        THEN SetUpdateData(docs[i], update_data) ELSE docs[i]]

\* mutant: update_one(..., upsert=True) inserts a document when none matches
UpdateOneByBillIdUpsert(docs, bill_id, update_data) ==
    LET i == FirstByBillId(docs, bill_id)
    IN  IF i = 0
        THEN Append(docs, [status |-> update_data.status,
                           updatedAt |-> update_data.updatedAt,
                           billplz |-> [k \in {"billId", "paidAt", "paidAmount"} |->
                                          IF k = "billId" THEN Some(bill_id)
                                          ELSE IF k = "paidAt" THEN update_data.paidAt
                                          ELSE update_data.paidAmount]])
        ELSE [docs EXCEPT ![i] = SetUpdateData(docs[i], update_data)]

\* collection.update_one({"billplz.billId": bill_id}, {"$set": update_data})
UpdateOneByBillId(docs, bill_id, update_data) ==
    LET i == FirstByBillId(docs, bill_id)
    IN  IF i = 0 THEN docs ELSE [docs EXCEPT ![i] = SetUpdateData(docs[i], update_data)]

\* mutant: the filter is {} and the first document of the collection is updated
UpdateOneByIdUnfiltered(docs, transaction_id, bill_data, timestamp) ==
    IF Len(docs) = 0 THEN docs
    ELSE [docs EXCEPT ![1] = SetBillplz(docs[1], bill_data, timestamp)]

\* collection.update_one({"_id": transaction_id}, {"$set": {...}})
UpdateOneById(docs, transaction_id, bill_data, timestamp) ==
    LET i == FirstById(docs, transaction_id)
    IN  IF i = 0 THEN docs ELSE [docs EXCEPT ![i] = SetBillplz(docs[i], bill_data, timestamp)]

----------------------------------------------------------------------------
(* Handler inputs *)

CProcs == {"c1", "c2"}        \* concurrent create_bill invocations
WProcs == {"w1", "w2"}        \* concurrent handle_webhook invocations

Nil == <<>>                   \* a local that holds nothing

\* JSON bodies of create_bill; amount in thousandths (10005 is 10.005)
ValidBody(amount) ==
    [api_key |-> Some("key"), collection_id |-> Some("C1"), user_id |-> Some("u1"),
     service_type |-> Some("JPJ"), description |-> Some("renewal"),
     amount |-> Some(amount), email |-> Some("a@b.my"), name |-> Some("Ali")]

\* Webhook bodies: absent (null), or text in one of two encodings carrying fields;
\* a field present with an empty value is sent as "id=" and is part of the text
Fields(id, paid, paid_at, paid_amount) ==
    Dict([id |-> id, paid |-> paid, paid_at |-> paid_at, paid_amount |-> paid_amount,
          collection_id |-> Some("C1")])

NullBody == [enc |-> "null", fields |-> EmptyDict]
Form(fields) == [enc |-> "form", fields |-> fields]
Json(fields) == [enc |-> "json", fields |-> fields]

\* TLC strings are atomic: the splitting of a value at its characters "&" and "=" is
\* listed for the values of the inputs that hold one; every other value holds none
Tokens(v) ==
    CASE v = "x&id=b1&y" -> <<"x", "&", "id", "=", "b1", "&", "y">>
      [] v = "x&id=b1&paid=true&paid_at=t1&paid_amount=100&y" ->
            <<"x", "&", "id", "=", "b1", "&", "paid", "=", "true", "&", "paid_at", "=",
              "t1", "&", "paid_amount", "=", "100", "&", "y">>
      [] v = "a=b" -> <<"a", "=", "b">>
      [] OTHER -> <<v>>

\* the members of a JSON object are written in this order
MemberOrder == <<"collection_id", "id", "note", "paid", "paid_amount", "paid_at">>

RECURSIVE Members(_, _)
Members(fields, order) ==
    IF Len(order) = 0 THEN <<>>
    ELSE IF Head(order) \notin DOMAIN fields THEN Members(fields, Tail(order))
    ELSE LET rest == Members(fields, Tail(order))
         IN  <<"\"" \o Head(order) \o "\": \"">> \o Tokens(fields[Head(order)]) \o <<"\"">>
             \o (IF Len(rest) = 0 THEN <<>> ELSE <<", ">> \o rest)

\* the text of a JSON body, split at "&" and "="
JsonText(fields) == <<"{">> \o Members(fields, MemberOrder) \o <<"}">>

RECURSIVE Concat(_)
Concat(parts) == IF Len(parts) = 0 THEN "" ELSE Head(parts) \o Concat(Tail(parts))

\* qs.split('&')
RECURSIVE SplitAmp(_)
SplitAmp(text) ==
    IF \A i \in 1..Len(text) : text[i] # "&" THEN <<text>>
    ELSE LET p == CHOOSE i \in 1..Len(text) :
                     text[i] = "&" /\ \A j \in 1..(i - 1) : text[j] # "&"
         IN  <<SubSeq(text, 1, p - 1)>> \o SplitAmp(SubSeq(text, p + 1, Len(text)))

\* name_value.split('=', 1) of the pieces that hold "=" and a non-blank value
\* (keep_blank_values=False)
RECURSIVE NameValues(_)
NameValues(pieces) ==
    IF Len(pieces) = 0 THEN <<>>
    ELSE LET nv == Head(pieces)
         IN  IF \A i \in 1..Len(nv) : nv[i] # "=" THEN NameValues(Tail(pieces))
             ELSE LET p == CHOOSE i \in 1..Len(nv) :
                              nv[i] = "=" /\ \A j \in 1..(i - 1) : nv[j] # "="
                      name == Concat(SubSeq(nv, 1, p - 1))
                      value == Concat(SubSeq(nv, p + 1, Len(nv)))
                  IN  IF value = "" THEN NameValues(Tail(pieces))
                      ELSE <<<<name, value>>>> \o NameValues(Tail(pieces))

\* {k: v[0] for k, v in parse_qs(text).items()}: the first value of each name
ParseQsText(text) ==
    LET pairs == NameValues(SplitAmp(text))
    IN  [k \in {pairs[i][1] : i \in 1..Len(pairs)} |->
            pairs[CHOOSE i \in 1..Len(pairs) :
                     pairs[i][1] = k /\ \A j \in 1..(i - 1) : pairs[j][1] # k][2]]

\* urllib.parse.parse_qs(raw_body) followed by {k: v[0]} (lines 200-201). A form body
\* carries its values percent-encoded, so they come back as sent, blank ones dropped;
\* the text of a JSON body is split at the "&" and "=" its values hold
ParseQs(body) ==
    IF body.enc = "form"
    THEN [k \in {x \in DOMAIN body.fields : body.fields[x] # ""} |-> body.fields[k]]
    ELSE IF body.enc = "json" THEN ParseQsText(JsonText(body.fields))
    ELSE EmptyDict

\* not raw_body: None, or the empty string (a form with no field; "{}" is not empty)
RawEmpty(body) == body.enc = "null" \/ (body.enc = "form" /\ DOMAIN body.fields = {})

\* headers.get('x-signature') or headers.get('X-Signature')
XSignature(headers) ==
    IF Truthy(Get(headers, "x-signature")) THEN Get(headers, "x-signature")
    ELSE Get(headers, "X-Signature")

NoHeader == EmptyDict
Header(name, value) == [k \in {name} |-> value]

\* the signature the provider sends with a body under signing key `key`
ProviderSignature(body, key) == HmacHex(key, ToSign(ParseQs(body)))

Response(statusCode, body) == [statusCode |-> statusCode, body |-> body]

----------------------------------------------------------------------------
(* handle_webhook *)

NoReturn == [fn |-> "none", event |-> Nil, resp |-> Response(0, "")]

\* mutant: the connection handle is not tested before the body is processed
HandleWebhookEarlyNoClientCheck(event) ==
    IF event.body.enc = "null" THEN Response(500, "Internal error")
    ELSE IF RawEmpty(event.body) THEN Response(400, "Empty body")
    ELSE IF ~Truthy(Get(ParseQs(event.body), "id")) THEN Response(400, "Missing bill ID")
    ELSE Nil

\* lines 181-217: the response of an early return, Nil when the update is reached.
\* len(raw_body) raises TypeError for a null body, answered 500 by the except.
HandleWebhookEarly(event) ==
    IF ~client THEN Response(500, "Database connection failed")
    ELSE IF event.body.enc = "null" THEN Response(500, "Internal error")
    ELSE IF RawEmpty(event.body) THEN Response(400, "Empty body")
    ELSE IF ~Truthy(Get(ParseQs(event.body), "id")) THEN Response(400, "Missing bill ID")
    ELSE Nil

\* line 212
BillIdOf(event) == Get(ParseQs(event.body), "id")[1]

\* mutant: `paid` is compared without regard to case
StatusOfAnyCase(webhook_data) ==
    IF Get(webhook_data, "paid") \in {Some("true"), Some("True")} THEN "paid" ELSE "failed"

\* lines 213, 220
StatusOf(webhook_data) ==
    IF Get(webhook_data, "paid") = Some("true") THEN "paid" ELSE "failed"

\* lines 221-226
UpdateData(event, timestamp) ==
    LET webhook_data == ParseQs(event.body)
    IN  [status |-> StatusOf(webhook_data),
         paidAt |-> Get(webhook_data, "paid_at"),
         paidAmount |-> Get(webhook_data, "paid_amount"),
         updatedAt |-> timestamp]

WebhookReturn(event, resp) == [fn |-> "handle_webhook", event |-> event, resp |-> resp]

\* lines 179-226 of one invocation: an early return, or the locals of the update with
\* the clock read on line 225
HandleWebhookBegin(w, event) ==
    /\ w_pc[w] = "idle"
    /\ IF HandleWebhookEarly(event) # Nil
       THEN /\ ret' = WebhookReturn(event, HandleWebhookEarly(event))
            /\ UNCHANGED wvars
       ELSE /\ w_pc' = [w_pc EXCEPT ![w] = "update"]
            /\ w_event' = [w_event EXCEPT ![w] = event]
            /\ w_upd' = [w_upd EXCEPT ![w] = UpdateData(event, now)]
            /\ ret' = NoReturn
    /\ UNCHANGED <<env, store, bills, now, cvars, vs>>

\* lines 228-238: the atomic update_one and the acknowledgment
HandleWebhookUpdate(w) ==
    /\ w_pc[w] = "update"
    /\ store' = UpdateOneByBillId(store, BillIdOf(w_event[w]), w_upd[w])
    /\ ret' = WebhookReturn(w_event[w], Response(200, "OK"))
    /\ w_pc' = [w_pc EXCEPT ![w] = "idle"]
    /\ w_event' = [w_event EXCEPT ![w] = Nil]
    /\ w_upd' = [w_upd EXCEPT ![w] = Nil]
    /\ UNCHANGED <<env, bills, now, cvars, vs>>

\* lines 228-231, 240-242: update_one raises and the except clause answers 500; the
\* store was not reached, or it applied the write and its reply was lost
HandleWebhookUpdateRaises(w) ==
    /\ w_pc[w] = "update"
    /\ \/ UNCHANGED store
       \/ store' = UpdateOneByBillId(store, BillIdOf(w_event[w]), w_upd[w])
    /\ ret' = WebhookReturn(w_event[w], Response(500, "Internal error"))
    /\ w_pc' = [w_pc EXCEPT ![w] = "idle"]
    /\ w_event' = [w_event EXCEPT ![w] = Nil]
    /\ w_upd' = [w_upd EXCEPT ![w] = Nil]
    /\ UNCHANGED <<env, bills, now, cvars, vs>>

----------------------------------------------------------------------------
(* create_bill *)

\* lines 81-106: Decimal(str(None)) raises InvalidOperation before the check of the
\* required parameters; a Decimal is falsy when it is zero
CreateBillEarly(body) ==
    IF ~client THEN Response(500, "Database connection failed. Please check logs.")
    ELSE IF body.amount = None THEN Response(500, "InvalidOperation")
    ELSE IF ~(/\ Truthy(body.api_key) /\ Truthy(body.collection_id)
              /\ Truthy(CALLBACK_URL) /\ Truthy(REDIRECT_URL)
              /\ Truthy(body.user_id) /\ body.amount[1] # 0)
         THEN Response(400, "Missing required parameters.")
    ELSE Nil

\* line 111
TransactionId(timestamp) == "txn_" \o ToString(timestamp)

\* line 99: (amount * 100) rounded ROUND_HALF_UP (halves away from zero), amount in
\* thousandths
AmountInCents(amount) ==
    IF amount >= 0 THEN (amount + 5) \div 10 ELSE -((5 - amount) \div 10)

\* lines 113-124; no billplz sub-record yet
TransactionDocument(body, timestamp) ==
    [_id |-> TransactionId(timestamp), userId |-> body.user_id,
     serviceType |-> body.service_type, description |-> body.description,
     amount |-> body.amount[1], currency |-> "MYR", status |-> "pending",
     createdAt |-> timestamp, updatedAt |-> timestamp, metadata |-> EmptyDict,
     billplz |-> EmptyDict]

\* lines 130-138
BillplzPayload(body, timestamp) ==
    [collection_id |-> body.collection_id, email |-> body.email, name |-> body.name,
     amount |-> AmountInCents(body.amount[1]), description |-> body.description,
     callback_url |-> CALLBACK_URL,
     redirect_url |-> REDIRECT_URL[1] \o "?transactionId=" \o TransactionId(timestamp)]

\* the provider numbers its bills; lines 141-147
NewBillId == "b" \o ToString(Len(bills) + 1)
BillData(id) == [id |-> Some(id), url |-> Some("https://billplz/bills/" \o id)]

CreateReturn(body, resp) == [fn |-> "create_bill", event |-> body, resp |-> resp]

\* the locals of an invocation that has returned
CreateBillDone(c) ==
    /\ c_pc' = [c_pc EXCEPT ![c] = "idle"]
    /\ c_body' = [c_body EXCEPT ![c] = Nil]
    /\ c_ts' = [c_ts EXCEPT ![c] = 0]
    /\ c_bill' = [c_bill EXCEPT ![c] = Nil]

\* lines 79-124: an early return, or the clock read (line 108) and the transaction
\* document built
CreateBillBegin(c, body) ==
    /\ c_pc[c] = "idle"
    /\ IF CreateBillEarly(body) # Nil
       THEN /\ ret' = CreateReturn(body, CreateBillEarly(body))
            /\ UNCHANGED cvars
       ELSE /\ c_pc' = [c_pc EXCEPT ![c] = "stamped"]
            /\ c_body' = [c_body EXCEPT ![c] = body]
            /\ c_ts' = [c_ts EXCEPT ![c] = now]
            /\ ret' = NoReturn
            /\ UNCHANGED c_bill
    /\ UNCHANGED <<env, store, bills, now, wvars, vs>>

\* line 126: insert_one stores the pending transaction, or raises DuplicateKeyError
\* and the except clause answers 500
CreateBillInsert(c) ==
    /\ c_pc[c] = "stamped"
    /\ IF DuplicateKey(store, TransactionDocument(c_body[c], c_ts[c]))
       THEN /\ ret' = CreateReturn(c_body[c], Response(500, "DuplicateKeyError"))
            /\ CreateBillDone(c)
            /\ UNCHANGED store
       ELSE /\ store' = Append(store, TransactionDocument(c_body[c], c_ts[c]))
            /\ c_pc' = [c_pc EXCEPT ![c] = "inserted"]
            /\ ret' = NoReturn
            /\ UNCHANGED <<c_body, c_ts, c_bill>>
    /\ UNCHANGED <<env, bills, now, wvars, vs>>

\* lines 126, 172-174: insert_one raises; the store was not reached, or it stored the
\* document (its _id being new) and its reply was lost
CreateBillInsertRaises(c) ==
    /\ c_pc[c] = "stamped"
    /\ \/ UNCHANGED store
       \/ /\ ~DuplicateKey(store, TransactionDocument(c_body[c], c_ts[c]))
          /\ store' = Append(store, TransactionDocument(c_body[c], c_ts[c]))
    /\ ret' = CreateReturn(c_body[c], Response(500, "ConnectionFailure"))
    /\ CreateBillDone(c)
    /\ UNCHANGED <<env, bills, now, wvars, vs>>

\* lines 130-148: the provider creates the bill
CreateBillPost(c) ==
    /\ c_pc[c] = "inserted"
    /\ bills' = Append(bills, [id |-> NewBillId,
                               payload |-> BillplzPayload(c_body[c], c_ts[c])])
    /\ c_bill' = [c_bill EXCEPT ![c] = BillData(NewBillId)]
    /\ c_pc' = [c_pc EXCEPT ![c] = "billed"]
    /\ ret' = NoReturn
    /\ UNCHANGED <<env, store, now, c_body, c_ts, wvars, vs>>

\* lines 141-147, 172-174: the request or raise_for_status raises and no bill was
\* created, or the provider created the bill and its reply was lost or is not JSON
\* (response.json() raises on line 147)
CreateBillPostRaises(c) ==
    /\ c_pc[c] = "inserted"
    /\ \/ /\ UNCHANGED bills
          /\ ret' = CreateReturn(c_body[c], Response(500, "HTTPError"))
       \/ /\ bills' = Append(bills, [id |-> NewBillId,
                                     payload |-> BillplzPayload(c_body[c], c_ts[c])])
          /\ ret' = CreateReturn(c_body[c], Response(500, "JSONDecodeError"))
    /\ CreateBillDone(c)
    /\ UNCHANGED <<env, store, now, wvars, vs>>

\* lines 150-170: the billplz sub-record is stored and the url returned
CreateBillUpdate(c) ==
    /\ c_pc[c] = "billed"
    /\ store' = UpdateOneById(store, TransactionId(c_ts[c]), c_bill[c], c_ts[c])
    /\ ret' = CreateReturn(c_body[c], Response(200, c_bill[c].url[1]))
    /\ CreateBillDone(c)
    /\ UNCHANGED <<env, bills, now, wvars, vs>>

\* lines 151-162, 172-174: update_one raises after the provider created the bill; the
\* store was not reached, or it applied the write and its reply was lost
CreateBillUpdateRaises(c) ==
    /\ c_pc[c] = "billed"
    /\ \/ UNCHANGED store
       \/ store' = UpdateOneById(store, TransactionId(c_ts[c]), c_bill[c], c_ts[c])
    /\ ret' = CreateReturn(c_body[c], Response(500, "ConnectionFailure"))
    /\ CreateBillDone(c)
    /\ UNCHANGED <<env, bills, now, wvars, vs>>

\* time passes
Tick ==
    /\ now < MaxClock
    /\ now' = now + 1
    /\ ret' = NoReturn
    /\ UNCHANGED <<env, store, bills, cvars, wvars, vs>>

\* verify_signature(data, signature) is called
VerifySignatureCall(data, signature) ==
    /\ vs.result = "none"
    /\ vs' = [data |-> data, signature |-> signature,
              result |-> verify_signature(data, signature)]
    /\ UNCHANGED <<env, store, bills, now, cvars, wvars, ret>>

----------------------------------------------------------------------------
(* Inputs *)

A1 == <<Some("t1"), Some("100")>>
A2 == <<Some("t2"), Some("200")>>

\* create_bill bodies: amounts with two and three decimals, a negative amount, each
\* required parameter missing in turn, a zero amount
HookBodies ==
    {ValidBody(a) : a \in {10000, 10005, -10005}}
    \cup {[ValidBody(10000) EXCEPT ![f] = None] :
            f \in {"api_key", "collection_id", "user_id", "amount"}}
    \cup {[ValidBody(10000) EXCEPT !.amount = Some(0)]}

\* callbacks: every id with a paid outcome, every value of `paid` for bill b1, the
\* audit values absent and present, a second bill, the two encodings, a JSON body with
\* a value that holds "&id=b1&", no body
HookFields ==
    {Fields(i, Some("true"), A1[1], A1[2]) :
        i \in {None, Some(""), Some("b1"), Some("b2"), Some("zz")}}
    \cup {Fields(Some("b1"), p, A1[1], A1[2]) :
        p \in {None, Some(""), Some("false"), Some("True"), Some("1")}}
    \cup {Fields(Some("b1"), p, a[1], a[2]) :
        p \in {Some("true"), Some("false")}, a \in {<<None, None>>, A2}}

\* a forged signature, and the provider's under either casing of the header name
SignatureHeaders(body) ==
    {Header("x-signature", "forged"),
     Header("X-Signature", ProviderSignature(body, "K1")),
     Header("x-signature", ProviderSignature(body, "K1"))}

HookEvents ==
    {[body |-> b, headers |-> NoHeader] :
        b \in {NullBody, Form(EmptyDict), Json(EmptyDict),
               Json(Fields(Some("b1"), Some("true"), A1[1], A1[2])),
               Json([note |-> "x&id=b1&y"])}
              \cup {Form(f) : f \in HookFields}}
    \cup UNION {{[body |-> b, headers |-> h] : h \in SignatureHeaders(b)} :
                  b \in {Form(Fields(i, Some("true"), A1[1], A1[2])) :
                            i \in {None, Some("b1")}}}

\* the concurrent handlers process two conflicting callbacks of bill b1 and one of
\* bill b2 (a bill that does not exist until a second transaction is created)
ConcBodies == {ValidBody(10000)}

ConcEvents ==
    {[body |-> b, headers |-> NoHeader] :
        b \in {Form(Fields(Some("b1"), Some("true"), A1[1], A1[2])),
               Form(Fields(Some("b1"), Some("false"), A2[1], A2[2])),
               Form(Fields(Some("b2"), Some("true"), A1[1], A1[2]))}}

\* the callback the concurrent create_bill invocations meet
CreatorEvents ==
    {[body |-> Form(Fields(Some("b1"), Some("true"), A1[1], A1[2])), headers |-> NoHeader]}

\* verify_signature inputs: the collection id absent, empty, configured or unknown;
\* a signed field absent or empty; a field outside the signed twelve
VsData ==
    {Dict([collection_id |-> c, id |-> Some("b1"), paid |-> p, extra |-> x]) :
        c \in {None, Some(""), Some("C1"), Some("C2"), Some("C9")},
        p \in {None, Some(""), Some("true")},
        x \in {None, Some("1")}}

VsSignatures ==
    {None, Some(""), Some("forged"), Some("signé")}
    \cup {Some(HmacHex(k, ToSign(d))) : k \in {"", "K1", "K2"}, d \in VsData}

----------------------------------------------------------------------------
(* Specifications *)

NoCall == [data |-> EmptyDict, signature |-> None, result |-> "none"]

InitHandlers ==
    /\ store = <<>>
    /\ bills = <<>>
    /\ now = 0
    /\ c_pc = [c \in CProcs |-> "idle"]
    /\ c_body = [c \in CProcs |-> Nil]
    /\ c_ts = [c \in CProcs |-> 0]
    /\ c_bill = [c \in CProcs |-> Nil]
    /\ w_pc = [w \in WProcs |-> "idle"]
    /\ w_event = [w \in WProcs |-> Nil]
    /\ w_upd = [w \in WProcs |-> Nil]
    /\ ret = NoReturn
    /\ vs = NoCall

\* the module is imported: the environment is read, the store is connected or not.
\* The handlers never read the collection ids and signing keys.
Init ==
    /\ CALLBACK_URL \in {None, Some("https://api/callback")}
    /\ REDIRECT_URL \in {None, Some("myapp://paid")}
    /\ JPJ_COLLECTION_ID = Some("C1")
    /\ TNB_COLLECTION_ID = Some("C2")
    /\ JPJ_BILLPLZ_X_SIGNATURE_KEY = Some("K1")
    /\ TNB_BILLPLZ_X_SIGNATURE_KEY = Some("K2")
    /\ client \in BOOLEAN
    /\ InitHandlers

\* invocations of the two handlers running concurrently, step by step: create_bill in
\* the slots CP, handle_webhook in the slots WP
Steps(CP, WP, bodies, events) ==
    \/ Tick
    \/ \E c \in CP, body \in bodies : CreateBillBegin(c, body)
    \/ \E c \in CP : CreateBillInsert(c)
    \/ \E c \in CP : CreateBillInsertRaises(c)
    \/ \E c \in CP : CreateBillPost(c)
    \/ \E c \in CP : CreateBillPostRaises(c)
    \/ \E c \in CP : CreateBillUpdate(c)
    \/ \E c \in CP : CreateBillUpdateRaises(c)
    \/ \E w \in WP, event \in events : HandleWebhookBegin(w, event)
    \/ \E w \in WP : HandleWebhookUpdate(w)
    \/ \E w \in WP : HandleWebhookUpdateRaises(w)

\* two concurrent handle_webhook invocations and one create_bill invocation
Next == Steps({"c1"}, WProcs, ConcBodies, ConcEvents)

Spec == Init /\ [][Next]_vars

\* two concurrent create_bill invocations and one handle_webhook invocation
NextCreators == Steps(CProcs, {"w1"}, ConcBodies, CreatorEvents)

SpecCreators == Init /\ [][NextCreators]_vars

\* no invocation is running
Idle == (\A c \in CProcs : c_pc[c] = "idle") /\ (\A w \in WProcs : w_pc[w] = "idle")

\* the steps of one create_bill invocation at a time
CreateBillSteps(bodies) ==
    \/ Idle /\ \E body \in bodies : CreateBillBegin("c1", body)
    \/ CreateBillInsert("c1")
    \/ CreateBillInsertRaises("c1")
    \/ CreateBillPost("c1")
    \/ CreateBillPostRaises("c1")
    \/ CreateBillUpdate("c1")
    \/ CreateBillUpdateRaises("c1")

\* one invocation at a time while time passes, over the wide callbacks
NextHook ==
    \/ Tick
    \/ CreateBillSteps(ConcBodies)
    \/ Idle /\ \E event \in HookEvents : HandleWebhookBegin("w1", event)
    \/ HandleWebhookUpdate("w1")
    \/ HandleWebhookUpdateRaises("w1")

SpecHook == Init /\ [][NextHook]_vars

\* one create_bill invocation at a time while time passes, over the wide bodies
NextCreate ==
    \/ Tick
    \/ CreateBillSteps(HookBodies)

SpecCreate == Init /\ [][NextCreate]_vars

\* verify_signature over every configuration of the collection ids and keys
InitVerify ==
    /\ CALLBACK_URL = Some("https://api/callback")
    /\ REDIRECT_URL = Some("myapp://paid")
    /\ JPJ_COLLECTION_ID \in {None, Some("C1")}
    /\ TNB_COLLECTION_ID \in {None, Some("C2")}
    /\ JPJ_BILLPLZ_X_SIGNATURE_KEY \in {None, Some(""), Some("K1")}
    /\ TNB_BILLPLZ_X_SIGNATURE_KEY \in {None, Some(""), Some("K2")}
    /\ client = TRUE
    /\ InitHandlers

NextVerify ==
    \E data \in VsData, signature \in VsSignatures : VerifySignatureCall(data, signature)

SpecVerify == InitVerify /\ [][NextVerify]_vars

----------------------------------------------------------------------------
(* Reading the state *)

\* a field of the callback as sent: None when the body does not carry it
RawField(event, k) ==
    IF event.body.enc = "null" THEN None ELSE Get(event.body.fields, k)

\* the bill id handle_webhook reads from the callback (line 212): None when absent
CallbackId(event) == Get(ParseQs(event.body), "id")

\* the signature of the callback verifies against its fields
SignatureVerifies(event) ==
    verify_signature(ParseQs(event.body), XSignature(event.headers)) = "True"

\* the transaction a bill id locates: 0 when there is none
Located(docs, id) ==
    IF id = None \/ ~(\E i \in 1..Len(docs) : Get(docs[i].billplz, "billId") = Some(id))
    THEN 0
    ELSE CHOOSE i \in 1..Len(docs) : Get(docs[i].billplz, "billId") = Some(id)

\* what a webhook may change of a transaction, without updatedAt
Outcome(doc) == <<doc.status, Get(doc.billplz, "paidAt"), Get(doc.billplz, "paidAmount")>>

\* the outcome a callback carries: blank values arrive as absent
CarriedOutcome(event) ==
    <<IF RawField(event, "paid") = Some("true") THEN "paid" ELSE "failed",
      Some(IF Truthy(RawField(event, "paid_at")) THEN RawField(event, "paid_at") ELSE None),
      Some(IF Truthy(RawField(event, "paid_amount"))
           THEN RawField(event, "paid_amount") ELSE None)>>

\* what no webhook may change of a transaction
Immutable(doc) ==
    <<doc._id, doc.userId, doc.serviceType, doc.description, doc.amount, doc.currency,
      doc.createdAt, Get(doc.billplz, "billId"), Get(doc.billplz, "url")>>

\* a step in which an invocation of handle_webhook returns, on event ret'.event
WebhookStep == ret'.fn = "handle_webhook"

\* the clock value the returning invocation read on line 225 (the present one for an
\* invocation that returns before it)
StampOfStep ==
    IF \E w \in WProcs : w_pc[w] = "update" /\ w_pc'[w] = "idle"
    THEN w_upd[CHOOSE w \in WProcs : w_pc[w] = "update" /\ w_pc'[w] = "idle"].updatedAt
    ELSE now

\* the invocation got as far as update_one and update_one returned
Acknowledged(r) == r.fn = "handle_webhook" /\ r.resp.statusCode = 200

----------------------------------------------------------------------------
(* Claims *)

\* C1: for every callback (a body with fields, the store being connected) whose
\* signature is absent or does not verify against the callback fields, handle_webhook
\* answers 400 and no transaction in the store is changed.
C1_SignatureEnforced ==
    [][(WebhookStep /\ client /\ ~RawEmpty(ret'.event.body)
        /\ ~SignatureVerifies(ret'.event))
        => (ret'.resp.statusCode = 400 /\ store' = store)]_vars

\* C2: the only status changes of a transaction are pending -> paid and
\* pending -> failed: a paid or failed transaction never changes status, and no
\* status returns to pending.
C2_OneWayStatus ==
    [][\A i \in 1..Len(store) :
          store'[i].status # store[i].status => store[i].status = "pending"]_vars

\* C3: a callback that matches a transaction writes status paid exactly when its
\* `paid` field is the literal string "true" and failed for every other value; no
\* webhook writes any other status.
C3_PaidIffLiteralTrue ==
    [][WebhookStep =>
         /\ (Acknowledged(ret') /\ Located(store, CallbackId(ret'.event)) # 0) =>
               store'[Located(store, CallbackId(ret'.event))].status
                  = (IF RawField(ret'.event, "paid") = Some("true")
                     THEN "paid" ELSE "failed")
         /\ \A i \in 1..Len(store) :
               store'[i].status # store[i].status => store'[i].status \in {"paid", "failed"}
      ]_vars

\* C3 witness: a callback with paid=True (capital T) has been acknowledged and the
\* transaction of its bill is failed.
C3_Witness ==
    /\ Acknowledged(ret)
    /\ RawField(ret.event, "paid") = Some("True")
    /\ Located(store, CallbackId(ret.event)) # 0
    /\ store[Located(store, CallbackId(ret.event))].status = "failed"

\* C4: processing the same callback (same id, paid, paid_at, paid_amount) again right
\* after it was processed leaves status, billplz.paidAt and billplz.paidAmount of
\* every transaction as the first processing left them: on the store an acknowledged
\* callback leaves, the update of the same callback read at any time changes no
\* outcome and no number of transactions.
C4_Idempotent ==
    [][(WebhookStep /\ Acknowledged(ret')) =>
          \A t \in 0..MaxClock :
             LET again == UpdateOneByBillId(store', BillIdOf(ret'.event),
                                            UpdateData(ret'.event, t))
             IN  /\ Len(again) = Len(store')
                 /\ \A i \in 1..Len(store') : Outcome(again[i]) = Outcome(store'[i])]_vars

\* C4 witness: a callback has been acknowledged and applied to the transaction of its
\* bill at a time later than the transaction's creation: the state the same callback
\* is processed in again.
C4_Witness ==
    /\ Acknowledged(ret)
    /\ Located(store, CallbackId(ret.event)) # 0
    /\ LET doc == store[Located(store, CallbackId(ret.event))]
       IN  Outcome(doc) = CarriedOutcome(ret.event) /\ doc.updatedAt > doc.createdAt

\* C5: a callback whose id is the billplz.billId of no stored transaction is answered
\* 200 (the store being connected; 500 only when update_one raises) and leaves the
\* store exactly as it was: no transaction changes and none is created.
C5_UnknownIdAcknowledged ==
    [][(WebhookStep /\ client /\ Truthy(CallbackId(ret'.event))
        /\ Located(store, CallbackId(ret'.event)) = 0)
        => (ret'.resp.statusCode \in {200, 500} /\ store' = store)]_vars

\* C5 witness: a callback for the unknown bill zz has been acknowledged with 200
\* while the store holds a transaction with a bill id.
C5_Witness ==
    /\ Acknowledged(ret)
    /\ CallbackId(ret.event) = Some("zz")
    /\ \E i \in 1..Len(store) : Get(store[i].billplz, "billId") # None

\* C6: with callbacks of one bill processed concurrently, the stored (status, paidAt,
\* paidAmount) is always the outcome one single callback of that bill carries, and
\* after each acknowledged callback it is the outcome of that callback.
C6_NoTornUpdate ==
    /\ \A i \in 1..Len(store) :
          store[i].status # "pending" =>
             \E e \in ConcEvents :
                /\ Get(store[i].billplz, "billId") = Some(CallbackId(e))
                /\ Outcome(store[i]) = CarriedOutcome(e)
    /\ (Acknowledged(ret) /\ Located(store, CallbackId(ret.event)) # 0) =>
          Outcome(store[Located(store, CallbackId(ret.event))]) = CarriedOutcome(ret.event)

\* C6 witness: a callback of bill b1 has been applied while another invocation, begun
\* with the conflicting callback of b1, is between building its update and update_one.
C6_Witness ==
    /\ Acknowledged(ret)
    /\ CallbackId(ret.event) = Some("b1")
    /\ Located(store, Some("b1")) # 0
    /\ store[Located(store, Some("b1"))].status # "pending"
    /\ \E w \in WProcs :
          /\ w_pc[w] = "update"
          /\ CallbackId(w_event[w]) = Some("b1")
          /\ CarriedOutcome(w_event[w]) # CarriedOutcome(ret.event)

\* C7: handle_webhook leaves _id, userId, serviceType, description, amount, currency,
\* createdAt, billplz.billId and billplz.url of every transaction unchanged, and the
\* number of transactions.
C7_ImmutableAttributes ==
    [][WebhookStep =>
         /\ Len(store') = Len(store)
         /\ \A i \in 1..Len(store) : Immutable(store'[i]) = Immutable(store[i])]_vars

\* C7 witness: an acknowledged callback has changed the status of the transaction of
\* its bill.
C7_Witness ==
    /\ Acknowledged(ret)
    /\ Located(store, CallbackId(ret.event)) # 0
    /\ store[Located(store, CallbackId(ret.event))].status = "paid"

\* C8: a callback with an empty body, or whose parsed body has no non-empty id, is
\* answered 400 (the store being connected) and the store is not updated.
C8_MissingIdRejected ==
    [][(WebhookStep /\ client
        /\ (RawEmpty(ret'.event.body) \/ ~Truthy(Get(ParseQs(ret'.event.body), "id"))))
        => (ret'.resp.statusCode = 400 /\ store' = store)]_vars

\* C9: verify_signature returns False, and does not raise, whenever the signature is
\* empty or absent or the key resolved for the callback's collection is empty or
\* absent.
ResolvedKey(data) ==
    IF Get(data, "collection_id") = JPJ_COLLECTION_ID THEN JPJ_BILLPLZ_X_SIGNATURE_KEY
    ELSE IF Get(data, "collection_id") = TNB_COLLECTION_ID THEN TNB_BILLPLZ_X_SIGNATURE_KEY
    ELSE None

C9_FailsClosed ==
    (vs.result # "none" /\ (~Truthy(vs.signature) \/ ~Truthy(ResolvedKey(vs.data))))
        => vs.result = "False"

\* C10: verify_signature returns False for every callback whose collection_id is not
\* one of the configured collection ids, a callback without collection_id included.
ConfiguredIds == {JPJ_COLLECTION_ID, TNB_COLLECTION_ID} \ {None}

C10_UnknownCollection ==
    (vs.result # "none" /\ Get(vs.data, "collection_id") \notin ConfiguredIds)
        => vs.result = "False"

\* C11: for a callback with a known collection and a non-empty signature,
\* verify_signature returns True exactly when the signature equals the HMAC-SHA256 hex
\* digest, under that collection's key, of the canonical string of the twelve fields in
\* the fixed order, each as name followed by value (empty when absent), joined by "|";
\* callbacks that differ only in absent-versus-empty fields or in fields outside the
\* twelve verify identically.
Canonical(data) ==
    LET v(k) == IF k \in DOMAIN data THEN data[k] ELSE ""
    IN  "amount" \o v("amount") \o "|collection_id" \o v("collection_id")
        \o "|due_at" \o v("due_at") \o "|email" \o v("email") \o "|id" \o v("id")
        \o "|mobile" \o v("mobile") \o "|name" \o v("name")
        \o "|paid_amount" \o v("paid_amount") \o "|paid_at" \o v("paid_at")
        \o "|paid" \o v("paid") \o "|state" \o v("state") \o "|url" \o v("url")

KnownCollection(data) ==
    Truthy(Get(data, "collection_id")) /\ Get(data, "collection_id") \in ConfiguredIds

SameSigned(d1, d2) ==
    \A i \in 1..Len(keys) : GetOrEmpty(d1, keys[i]) = GetOrEmpty(d2, keys[i])

C11_CanonicalHmac ==
    (vs.result # "none" /\ KnownCollection(vs.data) /\ Truthy(vs.signature)) =>
        /\ vs.result = "True" <=>
              /\ ResolvedKey(vs.data) # None
              /\ vs.signature[1] = HmacHex(ResolvedKey(vs.data)[1], Canonical(vs.data))
        /\ \A d \in VsData :
              SameSigned(d, vs.data) => verify_signature(d, vs.signature) = vs.result

\* C11 witness: a signature verified (True) for a callback of a known collection that
\* lacks the signed field `paid` and carries a field outside the twelve.
C11_Witness ==
    /\ vs.result = "True"
    /\ KnownCollection(vs.data)
    /\ "paid" \notin DOMAIN vs.data
    /\ "extra" \in DOMAIN vs.data

\* C12: after every callback that matches a transaction, the transaction's
\* billplz.paidAt equals the callback's paid_at, billplz.paidAmount its paid_amount,
\* billplz.webhookPayload the raw callback fields, and updatedAt is the time the
\* invocation read.
C12_AuditFields ==
    [][(WebhookStep /\ Acknowledged(ret') /\ Located(store, CallbackId(ret'.event)) # 0)
        => LET doc == store'[Located(store, CallbackId(ret'.event))]
               webhook_data == ParseQs(ret'.event.body)
           IN  /\ Get(doc.billplz, "paidAt") = Some(Get(webhook_data, "paid_at"))
               /\ Get(doc.billplz, "paidAmount") = Some(Get(webhook_data, "paid_amount"))
               /\ Get(doc.billplz, "webhookPayload") = Some(ret'.event.body.fields)
               /\ doc.updatedAt = StampOfStep]_vars

\* C13: a callback delivered as a JSON body and the same callback (same field names
\* and values) delivered as a URL-form-encoded body produce the same response code and
\* the same resulting store: whenever handle_webhook has processed a JSON body without
\* a failure of update_one, its response code and the store are those the form body
\* with the same fields produces from the same state.
AsForm(event) == [event EXCEPT !.body = Form(event.body.fields)]

C13_BothEncodings ==
    [][(WebhookStep /\ client /\ ret'.event.body.enc = "json"
        /\ ret'.resp.statusCode # 500)
        => LET form == AsForm(ret'.event)
           IN  IF HandleWebhookEarly(form) # Nil
               THEN /\ ret'.resp.statusCode = HandleWebhookEarly(form).statusCode
                    /\ store' = store
               ELSE /\ ret'.resp.statusCode = 200
                    /\ store' = UpdateOneByBillId(store, BillIdOf(form),
                                                  UpdateData(form, StampOfStep))]_vars

\* C14: for every amount create_bill accepts, the amount stored on the transaction
\* equals the amount sent to the provider: the cents of the provider's bill divided by
\* 100 are exactly the stored amount (amounts in thousandths: cents * 10).
C14_AmountRoundTrip ==
    \A i \in 1..Len(store), j \in 1..Len(bills) :
        Get(store[i].billplz, "billId") = Some(Some(bills[j].id))
            => store[i].amount = bills[j].payload.amount * 10

\* C15: when the store is unavailable (no connection handle) or update_one fails,
\* handle_webhook answers 500 and leaves every transaction unchanged, the invocation
\* being over without the update tried again; every response of handle_webhook is
\* 200, 400 or 500.
C15_PersistenceUnavailable ==
    [][WebhookStep =>
         /\ ret'.resp.statusCode \in {200, 400, 500}
         /\ ~client => ret'.resp.statusCode = 500
         /\ ret'.resp.statusCode = 500 =>
               (store' = store /\ \A w \in WProcs : w_pc'[w] = "idle")]_vars

\* C15, amended: every response of handle_webhook is 200, 400 or 500; with no
\* connection handle the answer is 500 and no transaction changes; when update_one
\* fails the answer is 500, the invocation is over without the update tried again, and
\* the store is unchanged or, the write having been applied before the failure, holds
\* exactly the one update of that callback.
C15_FailureSurfaced ==
    [][WebhookStep =>
         /\ ret'.resp.statusCode \in {200, 400, 500}
         /\ ~client => (ret'.resp.statusCode = 500 /\ store' = store)
         /\ ret'.resp.statusCode = 500 =>
               /\ \A w \in WProcs : w_pc'[w] = "idle"
               /\ \/ store' = store
                  \/ store' = UpdateOneByBillId(store, BillIdOf(ret'.event),
                                                UpdateData(ret'.event, StampOfStep))]_vars

\* C15 witness: a callback for the bill of a stored transaction was answered 500 with
\* the store connected (update_one failed) and the transaction is still pending.
C15_Witness ==
    /\ client
    /\ ret.fn = "handle_webhook"
    /\ ret.resp.statusCode = 500
    /\ Located(store, CallbackId(ret.event)) # 0
    /\ store[Located(store, CallbackId(ret.event))].status = "pending"

\* a step of Spec in which invocation w of handle_webhook performs update_one and
\* acknowledges (lines 228-238)
WebhookUpdateStep(w) ==
    w_pc[w] = "update" /\ w_pc'[w] = "idle" /\ ret'.resp.statusCode = 200

\* C16: a callback for bill b whose update_one runs after create_bill has inserted the
\* transaction and created bill b but before it has stored billplz.billId = b is
\* acknowledged with 200 and changes no transaction; a pending transaction leaves
\* pending only by the update_one of a callback carrying the bill id the transaction
\* already holds (so without a later callback for b it stays pending).
C16_EarlyCallbackLost ==
    [][/\ \A w \in WProcs, c \in CProcs :
             (/\ WebhookUpdateStep(w)
              /\ c_pc[c] = "billed"
              /\ c_bill[c].id = CallbackId(w_event[w]))
             => (store' = store /\ ret' = WebhookReturn(w_event[w], Response(200, "OK")))
       /\ \A i \in 1..Len(store) :
             (store[i].status = "pending" /\ store'[i].status # "pending")
             => \E w \in WProcs :
                   /\ w_pc[w] = "update" /\ w_pc'[w] = "idle"
                   /\ Get(store[i].billplz, "billId") = Some(CallbackId(w_event[w]))]_vars

\* C16 witness: the callback of bill b1 has been acknowledged while a create_bill
\* invocation holds bill b1 from the provider and has not stored it yet; its
\* transaction is pending and has no bill id.
C16_Witness ==
    /\ Acknowledged(ret)
    /\ CallbackId(ret.event) = Some("b1")
    /\ \E c \in CProcs :
          /\ c_pc[c] = "billed"
          /\ c_bill[c].id = Some("b1")
          /\ \E i \in 1..Len(store) :
                /\ store[i]._id = TransactionId(c_ts[c])
                /\ store[i].status = "pending"
                /\ Get(store[i].billplz, "billId") = None

\* C17: the update_one of a callback for bill id b changes at most one transaction,
\* and only one whose billplz.billId is b; transactions with another bill id or with
\* none yet are unchanged, whatever invocations are interleaved, and none is created.
C17_OnlyOwnBill ==
    [][\A w \in WProcs :
          (w_pc[w] = "update" /\ w_pc'[w] = "idle") =>
             /\ Len(store') = Len(store)
             /\ Cardinality({i \in 1..Len(store) : store'[i] # store[i]}) <= 1
             /\ \A i \in 1..Len(store) :
                   store'[i] # store[i] =>
                      Get(store[i].billplz, "billId") = Some(CallbackId(w_event[w]))]_vars

\* C17 witness: two transactions hold the bill ids b1 and b2; the callback of b2 has
\* been acknowledged, its transaction is paid and the transaction of b1 is pending.
C17_Witness ==
    /\ Acknowledged(ret)
    /\ CallbackId(ret.event) = Some("b2")
    /\ Located(store, Some("b1")) # 0
    /\ Located(store, Some("b2")) # 0
    /\ store[Located(store, Some("b2"))].status = "paid"
    /\ store[Located(store, Some("b1"))].status = "pending"

\* C18: in every interleaving of create_bill and handle_webhook invocations, no step
\* other than a webhook's update_one changes or removes the status, billplz.paidAt or
\* billplz.paidAmount of a transaction, create_bill's write of the whole billplz
\* sub-record included; and billplz.billId is written exactly once: create_bill's
\* update stores it on a transaction that had none, and once stored it never changes.
C18_CreateNeverErases ==
    [][/\ (\A w \in WProcs : ~(w_pc[w] = "update" /\ w_pc'[w] = "idle")) =>
             \A i \in 1..Len(store) : Outcome(store'[i]) = Outcome(store[i])
       /\ \A i \in 1..Len(store) :
             Get(store[i].billplz, "billId") # None =>
                Get(store'[i].billplz, "billId") = Get(store[i].billplz, "billId")
       /\ \A c \in CProcs :
             (c_pc[c] = "billed" /\ c_pc'[c] = "idle" /\ ret'.resp.statusCode = 200) =>
                \E i \in 1..Len(store) :
                   /\ store[i]._id = TransactionId(c_ts[c])
                   /\ Get(store[i].billplz, "billId") = None
                   /\ Get(store'[i].billplz, "billId") = Some(c_bill[c].id)]_vars

\* C18 witness: a transaction is paid with the audit values a webhook wrote, and the
\* last handler to return is a create_bill that stored its billplz sub-record.
C18_Witness ==
    /\ ret.fn = "create_bill"
    /\ ret.resp.statusCode = 200
    /\ \E i \in 1..Len(store) :
          /\ store[i].status = "paid"
          /\ Get(store[i].billplz, "paidAt") = Some(A1[1])
          /\ Get(store[i].billplz, "paidAmount") = Some(A1[2])

\* a step in which an invocation of create_bill returns, on body ret'.event
CreateStep == ret'.fn = "create_bill"

MissingRequired(body) ==
    \/ ~Truthy(body.api_key) \/ ~Truthy(body.collection_id) \/ ~Truthy(body.user_id)
    \/ body.amount = None
    \/ ~Truthy(CALLBACK_URL) \/ ~Truthy(REDIRECT_URL)

\* C19: create_bill called with any of the required parameters missing (api_key,
\* collection_id, user_id, amount, or an unset callback or redirect URL) returns 400
\* "Missing required parameters." (the store being connected), inserts no transaction
\* and makes no call to the provider.
C19_MissingParameters ==
    [][(CreateStep /\ client /\ MissingRequired(ret'.event))
        => /\ ret'.resp = Response(400, "Missing required parameters.")
           /\ store' = store
           /\ bills' = bills]_vars

\* no two transactions hold the same _id, and no two the same billplz.billId
UniqueKeys(docs) ==
    \A i, j \in 1..Len(docs) :
        i # j =>
           /\ docs[i]._id # docs[j]._id
           /\ Get(docs[i].billplz, "billId") # None =>
                 Get(docs[i].billplz, "billId") # Get(docs[j].billplz, "billId")

\* C20: transaction ids are unique primary keys under concurrent creation: the store
\* never holds two transactions with one _id; a create_bill invocation that reaches
\* insert_one with a transaction_id already stored (same timestamp) is answered 500,
\* changes no stored transaction and creates no provider bill; an invocation passes
\* insert_one only with a new id; and no two transactions hold the same billplz.billId.
C20_UniqueTransactionId ==
    [][/\ UniqueKeys(store')
       /\ \A c \in CProcs :
             (/\ c_pc[c] = "stamped" /\ c_pc'[c] # "stamped"
              /\ \E i \in 1..Len(store) : store[i]._id = TransactionId(c_ts[c])) =>
                /\ c_pc'[c] = "idle"
                /\ ret' = CreateReturn(c_body[c], ret'.resp)
                /\ ret'.resp.statusCode = 500
                /\ store' = store
                /\ bills' = bills
       /\ \A c \in CProcs :
             (c_pc[c] = "stamped" /\ c_pc'[c] = "inserted") =>
                /\ ~(\E i \in 1..Len(store) : store[i]._id = TransactionId(c_ts[c]))
                /\ Len(store') = Len(store) + 1
                /\ \A i \in 1..Len(store) : store'[i] = store[i]]_vars

\* C20 witness: a create_bill invocation was answered 500 for a duplicate key while
\* the invocation that inserted the transaction of the same timestamp is still running.
C20_Witness ==
    /\ ret.fn = "create_bill"
    /\ ret.resp = Response(500, "DuplicateKeyError")
    /\ \E c \in CProcs :
          /\ c_pc[c] \in {"inserted", "billed"}
          /\ \E i \in 1..Len(store) : store[i]._id = TransactionId(c_ts[c])
    /\ Len(store) = 1
    /\ UniqueKeys(store)

====
